---- MODULE Spec2Model ----
(***************************************************************************)
(* ICEC backend: consumption records, emission factors and the aggregate   *)
(* views over them (core/models.py, core/serializers.py, core/views.py,    *)
(* core/management/commands/seed_emission_factors.py).                     *)
(*                                                                         *)
(* Numbers.  Raw consumption quantities are whole units.  Emission factors *)
(* and stored emissions are held in thousandths (0.82 is 820), so the      *)
(* products and sums of calculate_emissions are exact integers.  Values    *)
(* returned by the views after round(x, 2) are held in hundredths.         *)
(***************************************************************************)
EXTENDS Integers, Sequences, FiniteSets, TLC

VARIABLES
    factors,    \* EmissionFactor table: a set of rows
    records,    \* ConsumptionRecord table: primary key -> row
    snap,       \* history: primary key -> EmissionFactor table at the row's last save
    nextId,     \* next primary key of the ConsumptionRecord table
    today,      \* timezone.now().date()
    reqs,       \* requests in flight (used by the interleaved specification)
    resp        \* the response of the last completed request

vars == <<factors, records, snap, nextId, today, reqs, resp>>

None == "None"

\* the empty mapping
NoFields == [f \in {} |-> 0]

-----------------------------------------------------------------------------
(* Bounds of the model *)

\* primary keys handed out: at most MaxId records are ever inserted
MaxId == 2

\* registered institutes (request.user)
Institutes == {"instA", "instB"}

-----------------------------------------------------------------------------
(* Dates: datetime.date as [y, m, d] *)

MkDate(y, m, d) == [y |-> y, m |-> m, d |-> d]

IsLeap(y) == (y % 4 = 0) /\ ((y % 100 # 0) \/ (y % 400 = 0))

DaysBeforeYear(y) ==
    LET p == y - 1 IN p * 365 + (p \div 4) - (p \div 100) + (p \div 400)

DaysInMonth(y, m) ==
    IF m = 2 THEN (IF IsLeap(y) THEN 29 ELSE 28)
    ELSE IF m \in {4, 6, 9, 11} THEN 30 ELSE 31

RECURSIVE DaysBeforeMonth(_, _)
DaysBeforeMonth(y, m) ==
    IF m = 1 THEN 0 ELSE DaysBeforeMonth(y, m - 1) + DaysInMonth(y, m - 1)

\* date.toordinal()
ToOrdinal(dt) == DaysBeforeYear(dt.y) + DaysBeforeMonth(dt.y, dt.m) + dt.d

-----------------------------------------------------------------------------
(* core/models.py *)

CATEGORY_CHOICES == {"ELECTRICITY", "FUEL", "WATER", "WASTE"}

SUB_CATEGORY_CHOICES ==
    {"GRID", "DIESEL", "PETROL", "LPG", "CNG", "MUNICIPAL_WATER",
     "ORGANIC_WASTE", "PLASTIC_WASTE", "E_WASTE", "GENERAL_WASTE"}

DEPARTMENT_CHOICES == {"HOSTEL", "CANTEEN", "ADMIN", "LABS", "TRANSPORT"}

RawFields ==
    {"electricity_kwh", "diesel_liters", "petrol_liters", "lpg_kg",
     "water_kl", "waste_kg"}

EmissionFields ==
    {"electricity_emissions", "fuel_emissions", "water_emissions",
     "waste_emissions", "total_emissions"}

\* the hardcoded fallbacks of calculate_emissions, in thousandths
DefaultFactor ==
    [GRID |-> 820, DIESEL |-> 2680, PETROL |-> 2310, LPG |-> 2980,
     MUNICIPAL_WATER |-> 344, GENERAL_WASTE |-> 580]

CalcSubs == DOMAIN DefaultFactor

\* EmissionFactor.Meta.unique_together = ['category', 'sub_category']
FactorKey(ef) == <<ef.category, ef.sub_category>>

\* {ef.sub_category: ef.factor for ef in EmissionFactor.objects.all()}: the
\* queryset has no ordering, so when several rows share a sub_category the
\* one that ends up in the dict is whichever the database returns last.
RECURSIVE DictsOver(_, _)
DictsOver(table, subs) ==
    IF subs = {} THEN {NoFields}
    ELSE LET s == CHOOSE x \in subs : TRUE IN
         {[x \in DOMAIN f \cup {s} |-> IF x = s THEN v ELSE f[x]] :
             f \in DictsOver(table, subs \ {s}),
             v \in {ef.factor : ef \in {e \in table : e.sub_category = s}}}

FactorDicts(table) == DictsOver(table, {ef.sub_category : ef \in table})

\* factors.get(sub, default)
FactorGet(fdict, sub) ==
    IF sub \in DOMAIN fdict THEN fdict[sub] ELSE DefaultFactor[sub]

\* calculate_emissions with the LPG term left out of the fuel sum
calculate_emissions_no_lpg(row, fdict) ==
    LET el == row.electricity_kwh * FactorGet(fdict, "GRID")
        fu == row.diesel_liters * FactorGet(fdict, "DIESEL")
              + row.petrol_liters * FactorGet(fdict, "PETROL")
        wa == row.water_kl * FactorGet(fdict, "MUNICIPAL_WATER")
        ws == row.waste_kg * FactorGet(fdict, "GENERAL_WASTE")
    IN  [row EXCEPT !.electricity_emissions = el,
                    !.fuel_emissions = fu,
                    !.water_emissions = wa,
                    !.waste_emissions = ws,
                    !.total_emissions = el + fu + wa + ws]

\* ConsumptionRecord.calculate_emissions with the dict it built
calculate_emissions(row, fdict) ==
    LET el == row.electricity_kwh * FactorGet(fdict, "GRID")
        fu == row.diesel_liters * FactorGet(fdict, "DIESEL")
              + row.petrol_liters * FactorGet(fdict, "PETROL")
              + row.lpg_kg * FactorGet(fdict, "LPG")
        wa == row.water_kl * FactorGet(fdict, "MUNICIPAL_WATER")
        ws == row.waste_kg * FactorGet(fdict, "GENERAL_WASTE")
    IN  [row EXCEPT !.electricity_emissions = el,
                    !.fuel_emissions = fu,
                    !.water_emissions = wa,
                    !.waste_emissions = ws,
                    !.total_emissions = el + fu + wa + ws]

\* ConsumptionRecord.Meta.unique_together = ['institute', 'department', 'date']
RecordKey(row) == <<row.institute, row.department, row.date>>

\* a new model instance: field defaults
NewRecord(inst) ==
    [institute |-> inst, department |-> None, date |-> None,
     electricity_kwh |-> 0, diesel_liters |-> 0, petrol_liters |-> 0,
     lpg_kg |-> 0, water_kl |-> 0, waste_kg |-> 0,
     electricity_emissions |-> 0, fuel_emissions |-> 0, water_emissions |-> 0,
     waste_emissions |-> 0, total_emissions |-> 0]

-----------------------------------------------------------------------------
(* Inputs of the model: dates, request bodies, query parameters *)

\* today is one of these two consecutive days
Day1 == MkDate(2026, 3, 15)
Day2 == MkDate(2026, 3, 16)

\* dates sent in request bodies
DEdge   == MkDate(2025, 3, 15)   \* 365 days before Day1, 366 before Day2
DRecent == MkDate(2026, 3, 10)   \* a few days before Day1
DFuture == MkDate(2026, 4, 20)   \* after both days

\* the raw quantities of a request body
Example ==
    [electricity_kwh |-> 100, diesel_liters |-> 10, petrol_liters |-> 5,
     lpg_kg |-> 2, water_kl |-> 3, waste_kg |-> 20]

Body(dept, dt) == [department |-> dept, date |-> dt]

\* bodies that carry department and date (POST, PUT)
FullBodies == {Body("HOSTEL", DRecent) @@ Example, Body("ADMIN", DRecent)}

\* bodies of partial updates (PATCH)
PatchBodies == {NoFields, [electricity_kwh |-> 7]}

\* bodies the serializer rejects
BadBodies == {Body("GYM", DRecent)}

Bodies == FullBodies \cup PatchBodies \cup BadBodies

\* a second set of raw quantities
Example2 ==
    [electricity_kwh |-> 7, diesel_liters |-> 0, petrol_liters |-> 1,
     lpg_kg |-> 0, water_kl |-> 4, waste_kg |-> 1]

\* bodies used where the aggregate views are exercised
ViewBodies ==
    {Body("HOSTEL", DRecent) @@ Example,
     Body("ADMIN", DRecent) @@ Example2,
     Body("ADMIN", DEdge) @@ Example,
     Body("HOSTEL", DFuture) @@ Example2,
     [date |-> DFuture], [department |-> "HOSTEL"]}

\* query parameters are strings; "" stands for an absent or empty parameter
YearParams == {"", "2025", "2026"}
MonthParams == {"", "3"}

\* int(s) for the strings above
ParseInt(str) ==
    CASE str = "2025" -> 2025
      [] str = "2026" -> 2026
      [] str = "3" -> 3

-----------------------------------------------------------------------------
(* core/management/commands/seed_emission_factors.py, core/admin.py *)

\* what the last request was and how it was answered
Response(op, user, req, status, body) ==
    [op |-> op, user |-> user, req |-> req, status |-> status, body |-> body]

UpdateReq(id, partial, body) == [id |-> id, partial |-> partial, data |-> body]

EF(cat, sub, f) == [category |-> cat, sub_category |-> sub, factor |-> f]

\* the emission_factors list of the seeding command, factors in thousandths
SeedFactors ==
    {EF("ELECTRICITY", "GRID", 820), EF("FUEL", "DIESEL", 2680),
     EF("FUEL", "PETROL", 2310), EF("FUEL", "LPG", 2980),
     EF("FUEL", "CNG", 2750), EF("WATER", "MUNICIPAL_WATER", 344),
     EF("WASTE", "ORGANIC_WASTE", 580), EF("WASTE", "PLASTIC_WASTE", 6000),
     EF("WASTE", "E_WASTE", 2000), EF("WASTE", "GENERAL_WASTE", 580)}

\* EmissionFactor.objects.update_or_create(category, sub_category, defaults)
update_or_create(table, ef) ==
    {x \in table : FactorKey(x) # FactorKey(ef)} \cup {ef}

RECURSIVE SeedAll(_, _)
SeedAll(table, todo) ==
    IF todo = {} THEN table
    ELSE LET ef == CHOOSE x \in todo : TRUE
         IN  SeedAll(update_or_create(table, ef), todo \ {ef})

\* a seeding run that also re-saves every stored record
SeedResaving ==
    /\ factors' = SeedAll(factors, SeedFactors)
    /\ \E fdict \in FactorDicts(factors') :
          records' = [id \in DOMAIN records |-> calculate_emissions(records[id], fdict)]
    /\ snap' = [id \in DOMAIN records |-> factors']
    /\ resp' = Response("seed", "admin", None, 0, None)
    /\ UNCHANGED <<nextId, today, reqs>>

\* Command.handle: the whole seeding run
Seed ==
    /\ factors' = SeedAll(factors, SeedFactors)
    /\ resp' = Response("seed", "admin", None, 0, None)
    /\ UNCHANGED <<records, snap, nextId, today, reqs>>

\* rows an administrator adds or edits in the admin site
AdminRows == {EF("ELECTRICITY", "GRID", 500), EF("FUEL", "GRID", 900)}

\* EmissionFactorAdmin: the add form stores a row for a (category,
\* sub_category) that has none (a second row for the same pair is refused by
\* unique_together), the change form edits the factor of the row that exists
AdminSaveFactor(ef) ==
    /\ ef.category \in CATEGORY_CHOICES
    /\ ef.sub_category \in SUB_CATEGORY_CHOICES
    /\ factors' = update_or_create(factors, ef)
    /\ resp' = Response("admin_factor", "admin", ef, 0, None)
    /\ UNCHANGED <<records, snap, nextId, today, reqs>>

-----------------------------------------------------------------------------
(* core/serializers.py: ConsumptionRecordSerializer *)

\* a serializer that lists 'institute' among its writable fields
WritableFieldsWithInstitute == {"department", "date", "institute"} \cup RawFields

\* the writable fields of the serializer: 'institute' is not among Meta.fields
\* and the emission fields are read-only
WritableFields == {"department", "date"} \cup RawFields

\* is_valid(): department and date are required unless the update is partial;
\* department is a choice field; the raw quantities are plain floats with
\* defaults.  No unique-together validator runs: a serializer that does not
\* carry every field of the constraint ('institute' here) gets none.
is_valid(body, partial) ==
    /\ partial \/ {"department", "date"} \subseteq DOMAIN body
    /\ "department" \in DOMAIN body => body.department \in DEPARTMENT_CHOICES

\* setattr(instance, attr, value) for every validated field
SetAttrs(row, body) ==
    [f \in DOMAIN row |->
        IF f \in DOMAIN body \cap WritableFields THEN body[f] ELSE row[f]]

\* to_representation of a stored row
Serialized(id, row) ==
    [f \in (DOMAIN row \ {"institute"}) \cup {"id"} |->
        IF f = "id" THEN id ELSE row[f]]

-----------------------------------------------------------------------------
(* The database *)

\* a table without the unique constraint
UniqueViolationNever(table, id, row) == FALSE

\* a uniqueness check that does not leave out the row being written
UniqueViolationAnyRow(table, id, row) ==
    \E other \in DOMAIN table : RecordKey(table[other]) = RecordKey(row)

\* the unique constraint of ConsumptionRecord, checked by the database on
\* INSERT and UPDATE: would `row` stored under primary key `id` collide?
UniqueViolation(table, id, row) ==
    \E other \in DOMAIN table :
        other # id /\ RecordKey(table[other]) = RecordKey(row)

\* a queryset that is not filtered by owner
get_queryset_all(table, user) == DOMAIN table

\* get_queryset(): ConsumptionRecord.objects.filter(institute=request.user)
get_queryset(table, user) ==
    {id \in DOMAIN table : table[id].institute = user}

Put(f, k, v) == [x \in DOMAIN f \cup {k} |-> IF x = k THEN v ELSE f[x]]

Drop(f, k) == [x \in DOMAIN f \ {k} |-> f[x]]

-----------------------------------------------------------------------------
(* core/views.py: the record endpoints, each request handled in one step *)

\* POST /consumption/
CreateRecord(user, body) ==
    /\ UNCHANGED <<factors, today, reqs>>
    /\ IF ~is_valid(body, FALSE)
       THEN /\ resp' = Response("create", user, body, 400, None)
            /\ UNCHANGED <<records, snap, nextId>>
       ELSE \E fdict \in FactorDicts(factors) :
            LET row == calculate_emissions(SetAttrs(NewRecord(user), body), fdict) IN
            IF UniqueViolation(records, nextId, row)
            THEN /\ resp' = Response("create", user, body, 500, "IntegrityError")
                 /\ UNCHANGED <<records, snap, nextId>>
            ELSE /\ nextId <= MaxId
                 /\ records' = Put(records, nextId, row)
                 /\ snap' = Put(snap, nextId, factors)
                 /\ nextId' = nextId + 1
                 /\ resp' = Response("create", user, body, 201, Serialized(nextId, row))

\* PUT or PATCH /consumption/<id>/
UpdateRecord(user, id, partial, body) ==
    /\ UNCHANGED <<factors, today, reqs, nextId>>
    /\ IF id \notin get_queryset(records, user)
       THEN /\ resp' = Response("update", user, UpdateReq(id, partial, body), 404, None)
            /\ UNCHANGED <<records, snap>>
       ELSE IF ~is_valid(body, partial)
       THEN /\ resp' = Response("update", user, UpdateReq(id, partial, body), 400, None)
            /\ UNCHANGED <<records, snap>>
       ELSE \E fdict \in FactorDicts(factors) :
            LET row == calculate_emissions(SetAttrs(records[id], body), fdict) IN
            IF UniqueViolation(records, id, row)
            THEN /\ resp' = Response("update", user, UpdateReq(id, partial, body), 500, "IntegrityError")
                 /\ UNCHANGED <<records, snap>>
            ELSE /\ records' = Put(records, id, row)
                 /\ snap' = Put(snap, id, factors)
                 /\ resp' = Response("update", user, UpdateReq(id, partial, body), 200, Serialized(id, row))

\* a delete that takes the caller's other records with it
DeleteRecordCascade(user, id) ==
    /\ UNCHANGED <<factors, today, reqs, nextId>>
    /\ IF id \notin get_queryset(records, user)
       THEN /\ resp' = Response("delete", user, id, 404, None)
            /\ UNCHANGED <<records, snap>>
       ELSE /\ records' = [x \in DOMAIN records \ get_queryset(records, user)
                              |-> records[x]]
            /\ snap' = [x \in DOMAIN records \ get_queryset(records, user)
                           |-> snap[x]]
            /\ resp' = Response("delete", user, id, 204, None)

\* DELETE /consumption/<id>/
DeleteRecord(user, id) ==
    /\ UNCHANGED <<factors, today, reqs, nextId>>
    /\ IF id \notin get_queryset(records, user)
       THEN /\ resp' = Response("delete", user, id, 404, None)
            /\ UNCHANGED <<records, snap>>
       ELSE /\ records' = Drop(records, id)
            /\ snap' = Drop(snap, id)
            /\ resp' = Response("delete", user, id, 204, None)

\* GET /consumption/<id>/
RetrieveRecord(user, id) ==
    /\ UNCHANGED <<factors, records, snap, nextId, today, reqs>>
    /\ IF id \notin get_queryset(records, user)
       THEN resp' = Response("retrieve", user, id, 404, None)
       ELSE resp' = Response("retrieve", user, id, 200, Serialized(id, records[id]))

-----------------------------------------------------------------------------
(* core/views.py: aggregation *)

\* the month filter applied only when no year is given (elif instead of if)
FilterRecordsElif(table, user, year, month) ==
    {id \in get_queryset(table, user) :
        IF year # "" THEN table[id].date.y = ParseInt(year)
        ELSE month # "" => table[id].date.m = ParseInt(month)}

\* the year filter dropped
FilterRecordsNoYear(table, user, year, month) ==
    {id \in get_queryset(table, user) :
        month # "" => table[id].date.m = ParseInt(month)}

\* records.filter(date__year=int(year)) if year, .filter(date__month=int(month))
\* if month, on top of filter(institute=request.user)
FilterRecords(table, user, year, month) ==
    {id \in get_queryset(table, user) :
        /\ year # "" => table[id].date.y = ParseInt(year)
        /\ month # "" => table[id].date.m = ParseInt(month)}

RECURSIVE Total(_, _, _)
Total(table, ids, field) ==
    IF ids = {} THEN 0
    ELSE LET id == CHOOSE x \in ids : TRUE
         IN  table[id][field] + Total(table, ids \ {id}, field)

\* Sum(field): SQL NULL, written <<>>, over no rows, else <<the sum>>
Sum(table, ids, field) ==
    IF ids = {} THEN <<>> ELSE <<Total(table, ids, field)>>

\* `x or 0`
OrZero(x) == IF x = <<>> THEN 0 ELSE x[1]

\* round(x, 2) of a value in thousandths; the result is in hundredths.  A value
\* exactly halfway goes to the even neighbour.
Round2(x) ==
    LET q == x \div 10
        r == x % 10
    IN  IF r < 5 THEN q
        ELSE IF r > 5 THEN q + 1
        ELSE IF q % 2 = 0 THEN q ELSE q + 1

\* round(x, 2) of a quantity in whole units; the result is in hundredths
Round2Units(x) == x * 100

\* the string order of the department codes
DepartmentOrder == <<"ADMIN", "CANTEEN", "HOSTEL", "LABS", "TRANSPORT">>

DeptRank(d) == CHOOSE i \in DOMAIN DepartmentOrder : DepartmentOrder[i] = d

\* dict(ConsumptionRecord.DEPARTMENT_CHOICES)
dept_names ==
    [HOSTEL |-> "Hostel", CANTEEN |-> "Canteen", ADMIN |-> "Administration",
     LABS |-> "Laboratories", TRANSPORT |-> "Transport"]

RECURSIVE SortDepartments(_)
SortDepartments(depts) ==
    IF depts = {} THEN <<>>
    ELSE LET d == CHOOSE x \in depts : \A y \in depts : DeptRank(x) <= DeptRank(y)
         IN  <<d>> \o SortDepartments(depts \ {d})

\* the groups in the order their first rows were inserted, as a GROUP BY
\* without the order_by may return them
RECURSIVE GroupDepartmentsUnordered(_, _)
GroupDepartmentsUnordered(table, ids) ==
    IF ids = {} THEN <<>>
    ELSE LET id == CHOOSE x \in ids : \A y \in ids : x <= y
             d == table[id].department
         IN  <<d>> \o GroupDepartmentsUnordered(table,
                          {x \in ids : table[x].department # d})

\* .values('department').annotate(...).order_by('department'): the groups
GroupDepartments(table, ids) ==
    SortDepartments({table[id].department : id \in ids})

InDepartment(table, ids, d) == {id \in ids : table[id].department = d}

\* TruncMonth('date') and strftime('%Y-%m')
TruncMonth(dt) == MkDate(dt.y, dt.m, 1)

MonthLabel(dt) == <<dt.y, dt.m>>

RECURSIVE SortMonths(_)
SortMonths(months) ==
    IF months = {} THEN <<>>
    ELSE LET mo == CHOOSE x \in months :
                      \A y \in months : ToOrdinal(x) <= ToOrdinal(y)
         IN  <<mo>> \o SortMonths(months \ {mo})

\* filter(institute=request.user, date__gte=twelve_months_ago)
TrendRecords(table, user, now) ==
    {id \in get_queryset(table, user) :
        ToOrdinal(table[id].date) >= ToOrdinal(now) - 365}

\* the monthly trend of DashboardStatsView.get
MonthlyTrend(table, user, now) ==
    LET ids == TrendRecords(table, user, now)
        months == SortMonths({TruncMonth(table[id].date) : id \in ids})
        of(mo) == {id \in ids : TruncMonth(table[id].date) = mo}
    IN  [i \in DOMAIN months |->
            [f \in EmissionFields \cup {"month"} |->
                IF f = "month" THEN MonthLabel(months[i])
                ELSE Round2(OrZero(Sum(table, of(months[i]), f)))]]

\* the body DashboardStatsView.get returns
StatsBody(table, user, year, month, now) ==
    LET ids == FilterRecords(table, user, year, month)
        depts == GroupDepartments(table, ids)
    IN  [total_emissions |-> Round2(OrZero(Sum(table, ids, "total_emissions"))),
         electricity_emissions |->
             Round2(OrZero(Sum(table, ids, "electricity_emissions"))),
         fuel_emissions |-> Round2(OrZero(Sum(table, ids, "fuel_emissions"))),
         water_emissions |-> Round2(OrZero(Sum(table, ids, "water_emissions"))),
         waste_emissions |-> Round2(OrZero(Sum(table, ids, "waste_emissions"))),
         department_breakdown |->
             [d \in {depts[i] : i \in DOMAIN depts} |->
                 Round2(OrZero(Sum(table, InDepartment(table, ids, d),
                                   "total_emissions")))],
         monthly_trend |-> MonthlyTrend(table, user, now),
         record_count |-> Cardinality(ids)]

\* the body ComparisonView.get returns
ComparisonBody(table, user) ==
    LET ids == get_queryset(table, user)
        depts == GroupDepartments(table, ids)
    IN  [i \in DOMAIN depts |->
            LET grp == InDepartment(table, ids, depts[i]) IN
            [department |-> depts[i],
             department_name |-> dept_names[depts[i]],
             emissions |->
                 [f \in EmissionFields |-> Round2(OrZero(Sum(table, grp, f)))],
             consumption |->
                 [f \in RawFields |-> Round2Units(OrZero(Sum(table, grp, f)))]]]

\* the report with the table test `len(dept_data) > 0`, which the header row
\* always passes
ReportBodyHeaderCounts(table, user, year) ==
    LET ids == FilterRecords(table, user, year, "")
        depts == GroupDepartments(table, ids)
        dept_data ==
            <<"header">> \o
            [i \in DOMAIN depts |->
                [name |-> dept_names[depts[i]],
                 value |-> Round2(OrZero(Sum(table,
                              InDepartment(table, ids, depts[i]),
                              "total_emissions")))]]
    IN  [period |-> year,
         summary |-> [f \in EmissionFields |-> Round2(OrZero(Sum(table, ids, f)))],
         dept_table |-> IF Len(dept_data) > 0 THEN dept_data ELSE <<>>,
         placeholder |-> IF Len(dept_data) > 0 THEN ""
                         ELSE "No department data available."]

\* the content of the document GenerateReportView.get builds: the period line,
\* the summary table, and either the department table or the placeholder line
ReportBody(table, user, year) ==
    LET ids == FilterRecords(table, user, year, "")
        depts == GroupDepartments(table, ids)
        dept_data ==
            <<"header">> \o
            [i \in DOMAIN depts |->
                [name |-> dept_names[depts[i]],
                 value |-> Round2(OrZero(Sum(table,
                              InDepartment(table, ids, depts[i]),
                              "total_emissions")))]]
    IN  [period |-> year,
         summary |-> [f \in EmissionFields |-> Round2(OrZero(Sum(table, ids, f)))],
         dept_table |-> IF Len(dept_data) > 1 THEN dept_data ELSE <<>>,
         placeholder |-> IF Len(dept_data) > 1 THEN ""
                         ELSE "No department data available."]

\* the body ListCreateAPIView.list returns, rows in Meta.ordering = ['-date']
ListBody(table, user) ==
    {Serialized(id, table[id]) : id \in get_queryset(table, user)}

\* GET /consumption/
ListRecords(user) ==
    /\ UNCHANGED <<factors, records, snap, nextId, today, reqs>>
    /\ resp' = Response("list", user, None, 200, ListBody(records, user))

\* GET /dashboard/stats/?year=&month=
DashboardStats(user, year, month) ==
    /\ UNCHANGED <<factors, records, snap, nextId, today, reqs>>
    /\ resp' = Response("stats", user, [year |-> year, month |-> month], 200,
                        StatsBody(records, user, year, month, today))

\* GET /dashboard/comparison/
Comparison(user) ==
    /\ UNCHANGED <<factors, records, snap, nextId, today, reqs>>
    /\ resp' = Response("comparison", user, None, 200,
                        ComparisonBody(records, user))

\* GET /report/pdf/?year=
GenerateReport(user, year) ==
    /\ UNCHANGED <<factors, records, snap, nextId, today, reqs>>
    /\ resp' = Response("report", user, [year |-> year], 200,
                        ReportBody(records, user, year))

\* the clock moves on
Tick ==
    /\ today = Day1
    /\ today' = Day2
    /\ resp' = Response("tick", "clock", None, 0, None)
    /\ UNCHANGED <<factors, records, snap, nextId, reqs>>

-----------------------------------------------------------------------------
Ids == 1..MaxId

Init ==
    /\ factors = {}
    /\ records = NoFields
    /\ snap = NoFields
    /\ nextId = 1
    /\ today = Day1
    /\ reqs = NoFields
    /\ resp = Response("init", "none", None, 0, None)

\* the institute whose requests the first specification follows
Owner == "instA"

\* records saved, edited and deleted while the factor table changes
Next ==
    \/ Seed
    \/ \E ef \in AdminRows : AdminSaveFactor(ef)
    \/ \E b \in Bodies : CreateRecord(Owner, b)
    \/ \E id \in Ids, p \in BOOLEAN, b \in Bodies : UpdateRecord(Owner, id, p, b)
    \/ \E id \in Ids : DeleteRecord(Owner, id)

Spec == Init /\ [][Next]_vars

\* both institutes' requests, the views among them, the factor table untouched
NextViews ==
    \/ \E u \in Institutes, b \in ViewBodies : CreateRecord(u, b)
    \/ \E u \in Institutes, id \in Ids, p \in BOOLEAN, b \in ViewBodies :
          UpdateRecord(u, id, p, b)
    \/ \E u \in Institutes, id \in Ids : DeleteRecord(u, id)
    \/ \E u \in Institutes, id \in Ids : RetrieveRecord(u, id)
    \/ \E u \in Institutes : ListRecords(u)
    \/ \E u \in Institutes, y \in YearParams, m \in MonthParams :
          DashboardStats(u, y, m)
    \/ \E u \in Institutes : Comparison(u)
    \/ \E u \in Institutes, y \in YearParams : GenerateReport(u, y)
    \/ Tick

SpecViews == Init /\ [][NextViews]_vars

-----------------------------------------------------------------------------
(* Requests whose bodies carry what the API is not meant to take: a key      *)
(* 'institute', a negative quantity.  Both institutes send them while the    *)
(* factor table is seeded and edited.                                        *)

\* raw quantities with a negative one
Negative ==
    [electricity_kwh |-> -5, diesel_liters |-> 0, petrol_liters |-> 0,
     lpg_kg |-> 0, water_kl |-> 2, waste_kg |-> 0]

FrameBodies ==
    {Body("HOSTEL", DRecent) @@ Example @@ [institute |-> "instB"],
     Body("ADMIN", DRecent) @@ Negative,
     [institute |-> "instA", diesel_liters |-> -4]}

NextFrame ==
    \/ Seed
    \/ AdminSaveFactor(EF("ELECTRICITY", "GRID", 500))
    \/ \E u \in Institutes, b \in FrameBodies : CreateRecord(u, b)
    \/ \E u \in Institutes, id \in Ids, p \in BOOLEAN, b \in FrameBodies :
          UpdateRecord(u, id, p, b)
    \/ \E u \in Institutes, id \in Ids : DeleteRecord(u, id)
    \/ \E u \in Institutes : ListRecords(u)
    \/ \E u \in Institutes : DashboardStats(u, "", "")
    \/ \E u \in Institutes : Comparison(u)
    \/ \E u \in Institutes : GenerateReport(u, "")

SpecFrame == Init /\ [][NextFrame]_vars

-----------------------------------------------------------------------------
(* Create requests handled concurrently: a request is validated, then       *)
(* save() computes the emissions from the factors it reads, then the INSERT *)
(* runs; requests of other workers may run between these steps.             *)

\* requests handled at the same time
MaxRequests == 2

Slots == 1..MaxRequests

RaceBodies ==
    {Body("HOSTEL", DRecent) @@ Example,
     Body("HOSTEL", DRecent) @@ Example2,
     Body("ADMIN", DRecent) @@ Example2,
     Body("GYM", DRecent)}

\* serializer.is_valid(raise_exception=True), then the instance is built
StartCreate(slot, user, body) ==
    /\ slot \notin DOMAIN reqs
    /\ UNCHANGED <<factors, records, snap, nextId, today>>
    /\ LET req == [op |-> "create", user |-> user, data |-> body,
                   began |-> Cardinality(DOMAIN records),
                   instance |-> SetAttrs(NewRecord(user), body),
                   read |-> {}, pc |-> "validated", status |-> 0]
       IN  IF ~is_valid(body, FALSE)
           THEN /\ reqs' = Put(reqs, slot,
                               [req EXCEPT !.pc = "done", !.status = 400,
                                           !.instance = NewRecord(user)])
                /\ resp' = Response("create", user, body, 400, None)
           ELSE /\ reqs' = Put(reqs, slot, req)
                /\ UNCHANGED resp

\* save(): self.calculate_emissions()
CalculateStep(slot) ==
    /\ slot \in DOMAIN reqs
    /\ reqs[slot].pc = "validated"
    /\ \E fdict \in FactorDicts(factors) :
          reqs' = [reqs EXCEPT ![slot].instance = calculate_emissions(@, fdict),
                               ![slot].read = factors,
                               ![slot].pc = "calculated"]
    /\ UNCHANGED <<factors, records, snap, nextId, today, resp>>

\* save(): super().save(), the INSERT under the table's unique constraint
InsertStep(slot) ==
    /\ slot \in DOMAIN reqs
    /\ reqs[slot].op = "create"
    /\ reqs[slot].pc = "calculated"
    /\ UNCHANGED <<factors, today>>
    /\ LET req == reqs[slot] IN
       IF UniqueViolation(records, nextId, req.instance)
       THEN /\ reqs' = [reqs EXCEPT ![slot].pc = "done", ![slot].status = 500]
            /\ resp' = Response("create", req.user, req.data, 500, "IntegrityError")
            /\ UNCHANGED <<records, snap, nextId>>
       ELSE /\ nextId <= MaxId
            /\ records' = Put(records, nextId, req.instance)
            /\ snap' = Put(snap, nextId, req.read)
            /\ nextId' = nextId + 1
            /\ reqs' = [reqs EXCEPT ![slot].pc = "done", ![slot].status = 201]
            /\ resp' = Response("create", req.user, req.data, 201,
                                Serialized(nextId, req.instance))

NextRace ==
    \/ \E sl \in Slots, u \in Institutes, b \in RaceBodies : StartCreate(sl, u, b)
    \/ \E sl \in Slots : CalculateStep(sl)
    \/ \E sl \in Slots : InsertStep(sl)
    \/ \E ef \in AdminRows : AdminSaveFactor(ef)

SpecRace == Init /\ [][NextRace]_vars

-----------------------------------------------------------------------------
(* Update requests handled concurrently: get_object() reads the row, the     *)
(* serializer validates and sets the sent fields on that instance, save()    *)
(* computes the emissions and then writes every field of the instance back;  *)
(* requests of other workers may run between these steps.                    *)

UpdateBodies ==
    {[electricity_kwh |-> 7], [diesel_liters |-> 3],
     Body("HOSTEL", DRecent) @@ Example2, Body("GYM", DRecent)}

\* requests that have been answered
Done == {sl \in DOMAIN reqs : reqs[sl].pc = "done"}

\* get_object(), serializer.is_valid(raise_exception=True), then
\* serializer.update sets the validated fields on the instance that was read
StartUpdate(slot, user, id, partial, body) ==
    /\ slot \notin DOMAIN reqs
    /\ UNCHANGED <<factors, records, snap, nextId, today>>
    /\ LET req == [op |-> "update", user |-> user, id |-> id, data |-> body,
                   partial |-> partial, base |-> NoFields, instance |-> NoFields,
                   read |-> {}, seq |-> 0, pc |-> "done", status |-> 0]
       IN  IF id \notin get_queryset(records, user)
           THEN /\ reqs' = Put(reqs, slot, [req EXCEPT !.status = 404])
                /\ resp' = Response("update", user, UpdateReq(id, partial, body),
                                    404, None)
           ELSE IF ~is_valid(body, partial)
           THEN /\ reqs' = Put(reqs, slot,
                               [req EXCEPT !.status = 400, !.base = records[id]])
                /\ resp' = Response("update", user, UpdateReq(id, partial, body),
                                    400, None)
           ELSE /\ reqs' = Put(reqs, slot,
                               [req EXCEPT !.base = records[id],
                                           !.instance = SetAttrs(records[id], body),
                                           !.pc = "validated"])
                /\ UNCHANGED resp

\* save(): super().save() of an instance that has a primary key: the UPDATE of
\* every column of that row (an INSERT under that key if the row is gone),
\* under the table's unique constraint
WriteStep(slot) ==
    /\ slot \in DOMAIN reqs
    /\ reqs[slot].op = "update"
    /\ reqs[slot].pc = "calculated"
    /\ UNCHANGED <<factors, nextId, today>>
    /\ LET req == reqs[slot]
           ureq == UpdateReq(req.id, req.partial, req.data)
       IN  IF UniqueViolation(records, req.id, req.instance)
           THEN /\ reqs' = [reqs EXCEPT ![slot].pc = "done", ![slot].status = 500]
                /\ resp' = Response("update", req.user, ureq, 500, "IntegrityError")
                /\ UNCHANGED <<records, snap>>
           ELSE /\ records' = Put(records, req.id, req.instance)
                /\ snap' = Put(snap, req.id, req.read)
                /\ reqs' = [reqs EXCEPT ![slot].pc = "done", ![slot].status = 200,
                                        ![slot].seq = Cardinality(Done) + 1]
                /\ resp' = Response("update", req.user, ureq, 200,
                                    Serialized(req.id, req.instance))

NextUpdates ==
    \/ \E b \in FullBodies : CreateRecord(Owner, b)
    \/ \E sl \in Slots, id \in Ids, p \in BOOLEAN, b \in UpdateBodies :
          StartUpdate(sl, Owner, id, p, b)
    \/ \E sl \in Slots : CalculateStep(sl)
    \/ \E sl \in Slots : WriteStep(sl)
    \/ AdminSaveFactor(EF("ELECTRICITY", "GRID", 500))

SpecUpdates == Init /\ [][NextUpdates]_vars

-----------------------------------------------------------------------------
(* Properties of the stored records under Spec *)

Emissions(row) == [f \in EmissionFields |-> row[f]]

\* the derived fields of `row` are those the formulas give with the dict `f`
DerivedFrom(row, f) ==
    LET g(sub) == IF sub \in DOMAIN f THEN f[sub] ELSE DefaultFactor[sub] IN
    /\ row.electricity_emissions = row.electricity_kwh * g("GRID")
    /\ row.fuel_emissions = row.diesel_liters * g("DIESEL")
                            + row.petrol_liters * g("PETROL")
                            + row.lpg_kg * g("LPG")
    /\ row.water_emissions = row.water_kl * g("MUNICIPAL_WATER")
    /\ row.waste_emissions = row.waste_kg * g("GENERAL_WASTE")
    /\ row.total_emissions = row.electricity_emissions + row.fuel_emissions
                             + row.water_emissions + row.waste_emissions

\* C1: every stored record's five derived fields equal the formulas applied to
\* its raw fields with the factors stored at its most recent save (one stored
\* factor per sub-category, the hardcoded default where none was stored).
C1_DerivedConsistent ==
    \A id \in DOMAIN records :
        \E f \in FactorDicts(snap[id]) : DerivedFrom(records[id], f)

\* C1 witness: a record with all raw quantities set, saved when only GRID had a
\* stored factor (500, the others fell back to defaults), and the factor table
\* has changed since.
C1_Witness ==
    \E id \in DOMAIN records :
        /\ snap[id] = {EF("ELECTRICITY", "GRID", 500)}
        /\ factors # snap[id]
        /\ records[id].lpg_kg > 0
        /\ records[id].electricity_emissions = 100 * 500
        /\ records[id].total_emissions = 50000 + 44310 + 1032 + 11600

\* C2: a step that changes the EmissionFactor table leaves every stored record
\* as it was, and the derived fields of a stored record change only in a step
\* that is a successful update of that record.
C2_FrozenSnapshot ==
    [][/\ factors' # factors => records' = records
       /\ \A id \in DOMAIN records \cap DOMAIN records' :
            Emissions(records'[id]) # Emissions(records[id])
                => /\ resp'.op = "update"
                   /\ resp'.status = 200
                   /\ resp'.body.id = id
                   /\ factors' = factors]_vars

\* C2 witness: the factor table was just changed and a stored record still
\* carries emissions computed with the earlier GRID factor, not the current one.
C2_Witness ==
    /\ resp.op \in {"seed", "admin_factor"}
    /\ \E id \in DOMAIN records :
         /\ snap[id] # factors
         /\ records[id].electricity_kwh > 0
         /\ \A f \in FactorDicts(factors) :
              records[id].electricity_emissions
                  # records[id].electricity_kwh * FactorGet(f, "GRID")

\* the update keeps the record's department and date
KeepsKey(row, body) ==
    /\ "department" \in DOMAIN body => body.department = row.department
    /\ "date" \in DOMAIN body => body.date = row.date

\* C5: a well-formed PUT or PATCH by the owner of an existing record that keeps
\* its department and date answers 200, and afterwards the record holds the
\* request's raw values (the stored ones where the request has none) and derived
\* fields computed from them with the factors stored at update time.
C5_UpdateSameKey ==
    [][( /\ resp'.op = "update"
         /\ resp'.req.id \in get_queryset(records, resp'.user)
         /\ is_valid(resp'.req.data, resp'.req.partial)
         /\ KeepsKey(records[resp'.req.id], resp'.req.data) )
       => LET id == resp'.req.id
              b == resp'.req.data
          IN  /\ resp'.status = 200
              /\ id \in DOMAIN records'
              /\ RecordKey(records'[id]) = RecordKey(records[id])
              /\ \A f \in RawFields :
                   records'[id][f] = IF f \in DOMAIN b THEN b[f] ELSE records[id][f]
              /\ \E fd \in FactorDicts(factors) : DerivedFrom(records'[id], fd)
              /\ resp'.body = Serialized(id, records'[id])]_vars

\* C5 witness: an empty PATCH answered 200 rewrote the derived fields: the
\* record's emissions are those of the current GRID factor 900, which exists
\* only once an administrator has added the FUEL/GRID row.
C5_Witness ==
    /\ resp.op = "update"
    /\ resp.status = 200
    /\ resp.req.data = NoFields
    /\ EF("FUEL", "GRID", 900) \in factors
    /\ resp.body.electricity_kwh = 100
    /\ resp.body.electricity_emissions = 100 * 900
    /\ records[resp.body.id].electricity_emissions = 100 * 900

\* C13 as stated: the EmissionFactor table never holds two rows with the same
\* sub_category, so the calculator's dict keyed by sub_category has one
\* possible value per key.
C13_OneFactorPerSubCategory ==
    /\ \A a, b \in factors : a.sub_category = b.sub_category => a = b
    /\ Cardinality(FactorDicts(factors)) = 1

-----------------------------------------------------------------------------
(* Properties under SpecViews *)

\* C3: no two stored records have the same (institute, department, date).
C3_UniqueKey ==
    \A i, j \in DOMAIN records :
        i # j => RecordKey(records[i]) # RecordKey(records[j])

\* C3 witness: with two records stored, an update that would have moved one
\* onto the other's (institute, department, date) was refused by the database.
C3_Witness ==
    /\ Cardinality(DOMAIN records) = 2
    /\ resp.op = "update"
    /\ resp.status = 500
    /\ \E i \in DOMAIN records :
         /\ i # resp.req.id
         /\ records[i].institute = resp.user
         /\ RecordKey(records[i])
              = RecordKey(SetAttrs(records[resp.req.id], resp.req.data))

\* the rows of `table` owned by `user`
Own(table, user) ==
    [id \in {x \in DOMAIN table : table[x].institute = user} |-> table[id]]

\* C6: a request of an institute leaves every record of another institute as it
\* was; retrieve, update and delete of an id the caller does not own answer 404
\* with no body, like an id that does not exist; and the list, stats,
\* comparison and report bodies are those computed from the caller's own
\* records alone.
C6_TenantIsolation ==
    [][resp'.user \in Institutes =>
        LET u == resp'.user IN
        /\ \A id \in DOMAIN records :
             records[id].institute # u
                 => id \in DOMAIN records' /\ records'[id] = records[id]
        /\ \A id \in DOMAIN records' :
             records'[id].institute # u
                 => id \in DOMAIN records /\ records[id] = records'[id]
        /\ ( /\ resp'.op \in {"retrieve", "delete"}
             /\ ~(resp'.req \in DOMAIN records /\ records[resp'.req].institute = u) )
           => resp'.status = 404 /\ resp'.body = None /\ records' = records
        /\ ( /\ resp'.op = "update"
             /\ ~(resp'.req.id \in DOMAIN records
                  /\ records[resp'.req.id].institute = u) )
           => resp'.status = 404 /\ resp'.body = None /\ records' = records
        /\ resp'.op = "list" => resp'.body = ListBody(Own(records', u), u)
        /\ resp'.op = "stats" =>
             resp'.body = StatsBody(Own(records', u), u, resp'.req.year,
                                    resp'.req.month, today')
        /\ resp'.op = "comparison" =>
             resp'.body = ComparisonBody(Own(records', u), u)
        /\ resp'.op = "report" =>
             resp'.body = ReportBody(Own(records', u), u, resp'.req.year)]_vars

\* C6 witness: a delete aimed at a record of the other institute was answered
\* 404 and the record is still stored, while that institute has records the
\* caller's views leave out.
C6_Witness ==
    /\ resp.op = "delete"
    /\ resp.status = 404
    /\ resp.req \in DOMAIN records
    /\ records[resp.req].institute # resp.user
    /\ get_queryset(records, resp.user) # {}

\* the caller's records whose date has the given year and the given month
Matching(user, year, month) ==
    {id \in DOMAIN records :
        /\ records[id].institute = user
        /\ year = "" \/ records[id].date.y = ParseInt(year)
        /\ month = "" \/ records[id].date.m = ParseInt(month)}

\* C7: the five sums of a stats response are the sums (rounded to two places)
\* over exactly the caller's records that have the given year and the given
\* month, an absent filter restricting nothing; record_count is their number;
\* the breakdown has one entry per department with a record among them, the
\* rounded sum of total_emissions of that department's records among them.
C7_StatsOverFiltered ==
    resp.op = "stats" =>
        LET set == Matching(resp.user, resp.req.year, resp.req.month)
            depts == {records[id].department : id \in set}
        IN  /\ resp.status = 200
            /\ \A f \in EmissionFields :
                 resp.body[f] = Round2(Total(records, set, f))
            /\ resp.body.record_count = Cardinality(set)
            /\ DOMAIN resp.body.department_breakdown = depts
            /\ \A d \in depts :
                 resp.body.department_breakdown[d]
                   = Round2(Total(records,
                                  {id \in set : records[id].department = d},
                                  "total_emissions"))

\* C7 witness: stats for year 2026 and month 3 counted one record of a caller
\* who has another record in month 3 of 2025, which the year filter left out.
C7_Witness ==
    /\ resp.op = "stats"
    /\ resp.req = [year |-> "2026", month |-> "3"]
    /\ resp.body.record_count = 1
    /\ resp.body.total_emissions > 0
    /\ Cardinality(Matching(resp.user, "", "3")) = 2
    /\ Cardinality(Matching(resp.user, "2025", "")) = 1

AllZero(body) ==
    /\ \A f \in EmissionFields : body[f] = 0
    /\ DOMAIN body.department_breakdown = {}
    /\ body.record_count = 0

\* C8 as stated: when no record of the caller matches the filters, the sums
\* are 0, the breakdown and the monthly trend are empty and record_count is 0.
C8_EmptyAllEmpty ==
    (resp.op = "stats" /\ Matching(resp.user, resp.req.year, resp.req.month) = {})
        => /\ resp.status = 200
           /\ AllZero(resp.body)
           /\ resp.body.monthly_trend = <<>>

\* C8 amended: when no record of the caller matches the filters, the response
\* is a 200 with the five sums 0, an empty breakdown and record_count 0; the
\* monthly trend does not look at the filters: it is empty exactly when the
\* caller has no record dated on or after today minus 365 days.
C8_EmptyFiltered ==
    (resp.op = "stats" /\ Matching(resp.user, resp.req.year, resp.req.month) = {})
        => /\ resp.status = 200
           /\ AllZero(resp.body)
           /\ resp.body.monthly_trend = <<>>
                <=> ~ \E id \in DOMAIN records :
                        /\ records[id].institute = resp.user
                        /\ ToOrdinal(records[id].date) >= ToOrdinal(today) - 365

\* C8 witness: stats for 2025 found no record of the caller, whose only record
\* is dated in 2026: everything is zero but the trend has that record's month.
C8_Witness ==
    /\ resp.op = "stats"
    /\ resp.req.year = "2025"
    /\ Matching(resp.user, "", "") # {}
    /\ Matching(resp.user, "2025", resp.req.month) = {}
    /\ resp.body.total_emissions = 0
    /\ resp.body.record_count = 0
    /\ Len(resp.body.monthly_trend) = 1

\* the caller's records of calendar month `label` dated within the 365 days
\* that end today
InWindow(user, label) ==
    {id \in DOMAIN records :
        /\ records[id].institute = user
        /\ <<records[id].date.y, records[id].date.m>> = label
        /\ ToOrdinal(records[id].date) >= ToOrdinal(today) - 365
        /\ ToOrdinal(records[id].date) <= ToOrdinal(today)}

MonthLabels ==
    {<<records[id].date.y, records[id].date.m>> : id \in DOMAIN records}

\* C9 as stated: the monthly trend has exactly one entry per calendar month in
\* which the caller has a record dated from today minus 365 days to today, its
\* sums taken over those records, and the entries ascend by month.
C9_TrendTrailingYear ==
    resp.op = "stats" =>
        LET trend == resp.body.monthly_trend IN
        /\ \A i \in DOMAIN trend :
             /\ InWindow(resp.user, trend[i].month) # {}
             /\ \A f \in EmissionFields :
                  trend[i][f] = Round2(Total(records,
                                             InWindow(resp.user, trend[i].month), f))
        /\ \A label \in MonthLabels :
             InWindow(resp.user, label) # {}
                 => Cardinality({i \in DOMAIN trend : trend[i].month = label}) = 1
        /\ \A i, j \in DOMAIN trend :
             i < j => \/ trend[i].month[1] < trend[j].month[1]
                      \/ /\ trend[i].month[1] = trend[j].month[1]
                         /\ trend[i].month[2] < trend[j].month[2]

\* every way the same rows could have been inserted: the rows under each
\* permutation of the primary keys
Reinserted(table) ==
    {[id \in DOMAIN table |-> table[pi[id]]] : pi \in Permutations(DOMAIN table)}

\* C10: the comparison has one entry per department in which the caller has a
\* record and none for others; an entry holds the rounded sums of the five
\* derived fields and of the six raw quantities over the caller's records of
\* that department; entries ascend by department code; and the body is the
\* same for every order in which the stored rows could have been inserted.
C10_Comparison ==
    resp.op = "comparison" =>
        LET body == resp.body
            mine == {id \in DOMAIN records : records[id].institute = resp.user}
            of(d) == {id \in mine : records[id].department = d}
        IN  /\ {body[i].department : i \in DOMAIN body}
                 = {records[id].department : id \in mine}
            /\ Len(body) = Cardinality({records[id].department : id \in mine})
            /\ \A i \in DOMAIN body :
                 /\ \A f \in EmissionFields :
                      body[i].emissions[f]
                        = Round2(Total(records, of(body[i].department), f))
                 /\ \A f \in RawFields :
                      body[i].consumption[f]
                        = 100 * Total(records, of(body[i].department), f)
            /\ \A i, j \in DOMAIN body :
                 i < j => DeptRank(body[i].department) < DeptRank(body[j].department)
            /\ \A t \in Reinserted(records) :
                 ComparisonBody(t, resp.user) = body

\* C10 witness: a comparison with two entries, ADMIN before HOSTEL, for a
\* caller whose HOSTEL record was inserted first.
C10_Witness ==
    /\ resp.op = "comparison"
    /\ Len(resp.body) = 2
    /\ resp.body[1].department = "ADMIN"
    /\ resp.body[2].department = "HOSTEL"
    /\ \E i, j \in get_queryset(records, resp.user) :
         i < j /\ records[i].department = "HOSTEL" /\ records[j].department = "ADMIN"

\* C12: a report request, with or without a year, is answered with a document;
\* the document has the line 'No department data available.' (and no department
\* table) exactly when the caller has no record matching the filter, and
\* otherwise a department table: the header row, then one row per department
\* in which the caller has a matching record.
C12_ReportPlaceholder ==
    resp.op = "report" =>
        LET set == Matching(resp.user, resp.req.year, "")
            depts == {records[id].department : id \in set}
            doc == resp.body
        IN  /\ resp.status = 200
            /\ doc.placeholder = "No department data available." <=> set = {}
            /\ doc.placeholder \in {"", "No department data available."}
            /\ set = {} => doc.dept_table = <<>>
            /\ set # {} =>
                 /\ Len(doc.dept_table) = 1 + Cardinality(depts)
                 /\ doc.dept_table[1] = "header"
                 /\ {doc.dept_table[i].name : i \in 2..Len(doc.dept_table)}
                      = {dept_names[d] : d \in depts}

\* C12 witness: a report for 2025 asked by a caller whose records are all dated
\* in 2026 came back as a document with the placeholder line and zero sums.
C12_Witness ==
    /\ resp.op = "report"
    /\ resp.status = 200
    /\ resp.req.year = "2025"
    /\ Matching(resp.user, "", "") # {}
    /\ Matching(resp.user, "2025", "") = {}
    /\ resp.body.placeholder = "No department data available."
    /\ resp.body.summary.total_emissions = 0

-----------------------------------------------------------------------------
(* Properties under SpecRace *)

\* completed create requests that passed validation
Decided == {sl \in DOMAIN reqs : reqs[sl].pc = "done" /\ reqs[sl].status # 400}

SameKey(a, b) == RecordKey(reqs[a].instance) = RecordKey(reqs[b].instance)

\* C4: of the create requests for one (institute, department, date), however
\* their steps interleave, one is answered 201 and every other one fails on the
\* unique constraint (IntegrityError) and writes nothing: the table holds one
\* row per successful request, with exactly that request's values.
C4_OneCreateWins ==
    /\ \A sl \in Decided : reqs[sl].status \in {201, 500}
    /\ \A a, b \in Decided :
         (a # b /\ SameKey(a, b)) => ~(reqs[a].status = 201 /\ reqs[b].status = 201)
    /\ \A a \in Decided :
         reqs[a].status = 500
             => \E b \in Decided : b # a /\ SameKey(a, b) /\ reqs[b].status = 201
    /\ \A a \in Decided :
         reqs[a].status = 201
             => Cardinality({id \in DOMAIN records :
                               RecordKey(records[id]) = RecordKey(reqs[a].instance)}) = 1
                /\ \E id \in DOMAIN records : records[id] = reqs[a].instance
    /\ Cardinality(DOMAIN records)
         = Cardinality({sl \in Decided : reqs[sl].status = 201})

\* C4 witness: two creates for the same key with different quantities, both
\* begun while the table was empty; one was answered 201, the other 500, and
\* the one row stored has the winner's quantities.
C4_Witness ==
    \E a, b \in Decided :
        /\ a # b
        /\ SameKey(a, b)
        /\ reqs[a].data # reqs[b].data
        /\ reqs[a].began = 0 /\ reqs[b].began = 0
        /\ reqs[a].status = 201 /\ reqs[b].status = 500
        /\ Cardinality(DOMAIN records) = 1
        /\ \E id \in DOMAIN records :
             records[id].electricity_kwh = reqs[a].data.electricity_kwh

-----------------------------------------------------------------------------
(* Properties under SpecFrame *)

\* C11 as stated: every stored record has its six raw quantities and its five
\* derived emission values greater than or equal to 0 (a request with a
\* negative quantity being rejected without a write).
C11_NonNegative ==
    \A id \in DOMAIN records :
        /\ \A f \in RawFields : records[id][f] >= 0
        /\ \A f \in EmissionFields : records[id][f] >= 0

\* C15: a delete of a stored record by its owner is answered 204 and removes
\* that row only: every other record, of any institute, is stored as before,
\* the EmissionFactor table, the key counter and the clock are as before; and
\* the caller's list, stats, comparison and report computed afterwards are
\* those of the caller's remaining records: the list has no entry with that
\* id, counts and sums are taken over the records that were there without it.
C15_DeleteOnlyThat ==
    [][( /\ resp'.op = "delete"
         /\ resp'.req \in DOMAIN records
         /\ records[resp'.req].institute = resp'.user )
       => LET id == resp'.req
              u == resp'.user
              left == Matching(u, "", "") \ {id}
              depts == {records[x].department : x \in left}
              inDept(d) == {x \in left : records[x].department = d}
              stats == StatsBody(records', u, "", "", today')
              comp == ComparisonBody(records', u)
              doc == ReportBody(records', u, "")
          IN  /\ resp'.status = 204
              /\ DOMAIN records' = DOMAIN records \ {id}
              /\ \A o \in DOMAIN records \ {id} : records'[o] = records[o]
              /\ factors' = factors
              /\ nextId' = nextId
              /\ today' = today
              /\ {r.id : r \in ListBody(records', u)} = left
              /\ stats.record_count = Cardinality(left)
              /\ \A f \in EmissionFields :
                   /\ stats[f] = Round2(Total(records, left, f))
                   /\ doc.summary[f] = Round2(Total(records, left, f))
              /\ DOMAIN stats.department_breakdown = depts
              /\ {comp[i].department : i \in DOMAIN comp} = depts
              /\ \A i \in DOMAIN comp :
                   /\ comp[i].emissions.total_emissions
                        = Round2(Total(records, inDept(comp[i].department),
                                       "total_emissions"))
                   /\ \A f \in RawFields :
                        comp[i].consumption[f]
                          = 100 * Total(records, inDept(comp[i].department), f)
              /\ doc.placeholder = "" <=> left # {}]_vars

\* C15 witness: a delete was answered 204, its row is gone, the caller's other
\* record is still stored, with emissions, and the factor table has rows.
C15_Witness ==
    /\ resp.op = "delete"
    /\ resp.status = 204
    /\ resp.req \notin DOMAIN records
    /\ factors # {}
    /\ \E o \in DOMAIN records :
         /\ records[o].institute = resp.user
         /\ records[o].total_emissions # 0

\* C16: a record enters the table only through a create answered 201 and then
\* belongs to the caller of that request, whatever its body holds; and no step
\* (create, PUT, PATCH, delete, a view, a factor change) changes the institute
\* of a record that stays stored.
C16_InstituteFixed ==
    [][/\ \A id \in DOMAIN records' \ DOMAIN records :
            /\ resp'.op = "create"
            /\ resp'.status = 201
            /\ resp'.body.id = id
            /\ records'[id].institute = resp'.user
       /\ \A id \in DOMAIN records' \cap DOMAIN records :
            records'[id].institute = records[id].institute]_vars

\* C16 witness: instB's PATCH whose body names instA as institute was answered
\* 200 and changed the record's diesel_liters, and the record, which instB had
\* created, is still instB's.
C16_Witness ==
    /\ resp.op = "update"
    /\ resp.status = 200
    /\ resp.user = "instB"
    /\ "institute" \in DOMAIN resp.req.data
    /\ resp.req.data.institute = "instA"
    /\ records[resp.req.id].diesel_liters = resp.req.data.diesel_liters
    /\ records[resp.req.id].institute = "instB"

-----------------------------------------------------------------------------
(* Properties under SpecUpdates *)

\* update requests that were answered 200
Updated == {sl \in Done : reqs[sl].op = "update" /\ reqs[sl].status = 200}

\* `e` and `l` wrote the same record and `l` was the next to write it after `e`,
\* and the last
Successive(e, l) ==
    /\ reqs[e].id = reqs[l].id
    /\ reqs[e].seq < reqs[l].seq
    /\ \A o \in Updated :
         reqs[o].id = reqs[l].id => reqs[o].seq <= reqs[e].seq \/ o = l

\* C14 as stated: after two updates of one record that both succeeded, the
\* stored record has, for every raw field, the later-committing update's value
\* where its request sent one and the value the earlier update committed where
\* it sent none, and derived fields computed from the stored raw fields.
C14_LastWriterWins ==
    \A e, l \in Updated :
        Successive(e, l) =>
            LET id == reqs[l].id IN
            /\ id \in DOMAIN records
            /\ \A f \in RawFields :
                 records[id][f] = IF f \in DOMAIN reqs[l].data
                                  THEN reqs[l].data[f]
                                  ELSE reqs[e].instance[f]
            /\ \E fd \in FactorDicts(snap[id]) : DerivedFrom(records[id], fd)

====
